---- MODULE Spec2Model ----
(***************************************************************************)
(* equirect2cubemap: one equirectangular image is projected onto the six   *)
(* faces of a cube (src/src/main.rs, src/src/lib.rs, src/src/math.rs).     *)
(*                                                                         *)
(* The binary's main() is modelled as a state machine: argument parsing,   *)
(* image::open, the aspect check, create_dir_all, convert (six rayon       *)
(* tasks, one put_pixel per step), the optional rotate (six rayon tasks)   *)
(* and the save (six rayon tasks, each of which may fail).                 *)
(*                                                                         *)
(* Arithmetic.  The code computes in f32.  The model keeps directions      *)
(* exact (scaled by 2*size, so they are integers) and evaluates atan2,     *)
(* asin, the UV conversion and the sampler's weights in fixed point with   *)
(* FP units per 1.0.  Angles on the octant boundaries (0, pi/4, pi/2, pi)  *)
(* are exact, so u = 0.5, u = 1.0 and v = 0 come out as in the code.       *)
(***************************************************************************)
EXTENDS Integers, Sequences, FiniteSets, TLC

\* ------------------------------------------------------------------ bounds

\* largest face size (config.size) the inputs are drawn from
MaxSize == 2

\* number of rayon worker threads: at most this many tasks are in progress
NumThreads == 2

\* ------------------------------------------------------------- fixed point

\* fixed-point units per 1.0
FP == 2 ^ 14

\* units per 1.0 of the square root taken in PhiOf
RootScale == 2 ^ 11

\* std::f32::consts::PI, in fixed point
PI == (355 * FP) \div 113

Abs(n) == IF n < 0 THEN -n ELSE n

Min(a, b) == IF a < b THEN a ELSE b

Max(a, b) == IF a < b THEN b ELSE a

\* f32::round for a non-negative quotient a / b: half rounds away from zero
RoundDiv(a, b) == (2 * a + b) \div (2 * b)

\* f32::sqrt: the largest r with r * r <= n, by bisection on [lo, hi)
RECURSIVE SqrtIn(_, _, _)
SqrtIn(n, lo, hi) ==
    IF hi - lo <= 1 THEN lo
    ELSE LET mid == (lo + hi) \div 2
         IN  IF mid * mid <= n THEN SqrtIn(n, mid, hi) ELSE SqrtIn(n, lo, mid)

Sqrt(n) == SqrtIn(n, 0, 46341)

\* The tail of Euler's series for atan: term(k+1) = term(k) * r * (2k+2)/(2k+3),
\* where r = t^2 / (1 + t^2) <= 1/2 is given in fixed point.  With r <= 1/2 the
\* terms past the twentieth are below one unit.
RECURSIVE AtanSum(_, _, _)
AtanSum(term, r, k) ==
    IF term = 0 \/ k > 20 THEN 0
    ELSE term + AtanSum(RoundDiv(RoundDiv(term * r, FP) * (2 * k + 2), 2 * k + 3), r, k + 1)

\* atan(t) for 0 <= t <= 1, from t0 = t / (1 + t^2) and r = t^2 / (1 + t^2)
AtanSeries(t0, r) == AtanSum(t0, r, 0)

\* atan(p / q) for integers 0 <= p <= q, q > 0
AtanRatio(p, q) ==
    IF p = 0 THEN 0
    ELSE IF p = q THEN PI \div 4
    ELSE AtanSeries(RoundDiv(FP * p * q, p * p + q * q), RoundDiv(FP * p * p, p * p + q * q))

\* f32::atan2(y, x) in [-PI, PI]; atan2(+0, x < 0) = PI and atan2(0, 0) = 0
Atan2(y, x) ==
    LET ay == Abs(y)
        ax == Abs(x)
        base == IF ay <= ax THEN AtanRatio(ay, ax) ELSE (PI \div 2) - AtanRatio(ax, ay)
        ang == IF ax = 0 /\ ay = 0 THEN 0
               ELSE IF x >= 0 THEN base
               ELSE PI - base
    IN  IF y < 0 THEN -ang ELSE ang

\* ---------------------------------------------------------------- math.rs

\* Vector3::len squared of a direction d = <<x, y, z>>
LenSq(d) == d[1] * d[1] + d[2] * d[2] + d[3] * d[3]

\* value.z.asin() of the normalized direction: asin(z / len), evaluated as
\* atan(|z| / sqrt(x^2 + y^2)) since len is irrational
PhiOf(d) ==
    LET az == Abs(d[3])
        hh == d[1] * d[1] + d[2] * d[2]
        root == Sqrt(hh * RootScale * RootScale)
        t0 == RoundDiv(FP * az * root, RootScale * LenSq(d))
        ang == IF az = 0 THEN 0
               ELSE IF hh = 0 THEN PI \div 2
               ELSE IF az * az <= hh
                    THEN AtanSeries(t0, RoundDiv(FP * az * az, LenSq(d)))
               ELSE (PI \div 2) - AtanSeries(t0, RoundDiv(FP * hh, LenSq(d)))
    IN  IF d[3] < 0 THEN -ang ELSE ang

\* SphericalAngle::from_normalized_vector(pos.normalize())
from_normalized_vector(d) == [theta |-> Atan2(d[2], d[1]), phi |-> PhiOf(d)]

\* a / b rounded to nearest for a of either sign, b > 0
SDiv(a, b) == IF a < 0 THEN -RoundDiv(-a, b) ELSE RoundDiv(a, b)

\* SphericalAngle::to_uv
to_uv(spr) == <<SDiv(spr.theta * FP, 2 * PI) + FP \div 2, SDiv(spr.phi * FP, PI) + FP \div 2>>

\* ------------------------------------------------------------------ images

\* Rgba<u8> channels
Byte == 0 .. 255

\* pixel coordinates of a w x h image
Coords(w, h) == (0 .. w - 1) \X (0 .. h - 1)

\* f32 -> u8 of DynamicImage's pixel conversion: clamp to [0, 1], * 255, round
F32ToU8(c) == IF c >= 1 THEN 255 ELSE 0

\* GenericImageView::get_pixel of a DynamicImage: always an Rgba<u8>.  A decoded
\* image is [w, h, kind, px]: Rgba8 channels are bytes, Rgb32F channels are
\* whole-valued floats.
get_pixel(img, x, y) ==
    LET p == img.px[<<x, y>>]
    IN  IF img.kind = "Rgb32F"
        THEN <<F32ToU8(p[1]), F32ToU8(p[2]), F32ToU8(p[3]), 255>>
        ELSE p

\* Option::None of the sampler
None == <<>>

\* the range check (0.0..=1.0).contains(c)
InUnit(c) == 0 <= c /\ c <= FP

\* imageops::interpolate_nearest
interpolate_nearest(img, x, y) ==
    IF img.w = 0 \/ img.h = 0 THEN None
    ELSE IF ~(0 <= x /\ x <= (img.w - 1) * FP) THEN None
    ELSE IF ~(0 <= y /\ y <= (img.h - 1) * FP) THEN None
    ELSE get_pixel(img, RoundDiv(x, FP), RoundDiv(y, FP))

\* imageops::sample_nearest
sample_nearest(img, u, v) ==
    IF ~(InUnit(u) /\ InUnit(v)) THEN None
    ELSE interpolate_nearest(img,
                             Max(0, Min(img.w * u, Max(img.w - 1, 0) * FP)),
                             Max(0, Min(img.h * v, Max(img.h - 1, 0) * FP)))

\* imageops::interpolate_bilinear
interpolate_bilinear(img, x, y) ==
    IF img.w = 0 \/ img.h = 0 THEN None
    ELSE IF ~(0 <= x /\ x <= (img.w - 1) * FP) THEN None
    ELSE IF ~(0 <= y /\ y <= (img.h - 1) * FP) THEN None
    ELSE LET uf == x \div FP
             vf == y \div FP
             uc == Min(uf + 1, img.w - 1)
             vc == Min(vf + 1, img.h - 1)
             ufw == x - uf * FP
             vfw == y - vf * FP
             ucw == (uf + 1) * FP - x
             vcw == (vf + 1) * FP - y
             wff == RoundDiv(ucw * vcw, FP)
             wfc == RoundDiv(ucw * vfw, FP)
             wcf == RoundDiv(ufw * vcw, FP)
             wcc == RoundDiv(ufw * vfw, FP)
             sff == get_pixel(img, uf, vf)
             sfc == get_pixel(img, uf, vc)
             scf == get_pixel(img, uc, vf)
             scc == get_pixel(img, uc, vc)
         IN  [i \in 1 .. 4 |->
                Min(255, RoundDiv(wff * sff[i] + wfc * sfc[i] + wcf * scf[i] + wcc * scc[i], FP))]

\* imageops::sample_bilinear
sample_bilinear(img, u, v) ==
    IF ~(InUnit(u) /\ InUnit(v)) THEN None
    ELSE IF img.w = 0 \/ img.h = 0 THEN None
    ELSE interpolate_bilinear(img,
                              Max(img.w * u - FP \div 2, 0),
                              Max(img.h * v - FP \div 2, 0))

\* the fallback of Interpolation::sample
Fallback == <<0, 0, 0, 255>>

\* Interpolation::sample before the unwrap_or
sampled(interpolation, img, uv) ==
    IF interpolation = "Linear"
    THEN sample_bilinear(img, uv[1], uv[2])
    ELSE sample_nearest(img, uv[1], uv[2])

\* a sampler whose fallback is the transparent default pixel
sample_default(interpolation, img, uv) ==
    LET r == sampled(interpolation, img, uv)
    IN  IF r = None THEN <<0, 0, 0, 0>> ELSE r

\* Interpolation::sample
sample(interpolation, img, uv) ==
    LET r == sampled(interpolation, img, uv)
    IN  IF r = None THEN Fallback ELSE r

\* reinhard_tone_mapping_rgb: (c * e) / (1 + c * e), * 255, round, as u8
reinhard_tone_mapping_rgb(color, exposure) ==
    <<Min(255, RoundDiv(255 * color[1] * exposure, 1 + color[1] * exposure)),
      Min(255, RoundDiv(255 * color[2] * exposure, 1 + color[2] * exposure)),
      Min(255, RoundDiv(255 * color[3] * exposure, 1 + color[3] * exposure)),
      255>>

\* reinhard_tone_mapping_rgba: as above, alpha is (a * 255).round() as u8
reinhard_tone_mapping_rgba(color, exposure) ==
    <<Min(255, RoundDiv(255 * color[1] * exposure, 1 + color[1] * exposure)),
      Min(255, RoundDiv(255 * color[2] * exposure, 1 + color[2] * exposure)),
      Min(255, RoundDiv(255 * color[3] * exposure, 1 + color[3] * exposure)),
      Min(255, 255 * color[4])>>

\* ----------------------------------------------------------------- sources

\* a 4 x 2 8-bit source whose pixels all differ
ImgGrid ==
    [w |-> 4, h |-> 2, kind |-> "Rgba8",
     px |-> [c \in Coords(4, 2) |-> <<60 * c[1], 200 * c[2], 255 - 60 * c[1], 255>>]]

\* a 2 x 1 8-bit source of one colour
ImgSolid ==
    [w |-> 2, h |-> 1, kind |-> "Rgba8", px |-> [c \in Coords(2, 1) |-> <<255, 0, 0, 255>>]]

\* a 2 x 1 float RGB source
ImgHdr ==
    [w |-> 2, h |-> 1, kind |-> "Rgb32F", px |-> [c \in Coords(2, 1) |-> <<1, 2, 4>>]]

\* a 2 x 2 source: width is not twice the height
ImgSquare ==
    [w |-> 2, h |-> 2, kind |-> "Rgba8",
     px |-> [c \in Coords(2, 2) |-> <<10 * c[1], 10 * c[2], 0, 255>>]]

\* the files the input path may hold, decoded
Images == {ImgGrid, ImgSolid, ImgHdr, ImgSquare}

\* enum Interpolation
Interpolation == {"Linear", "Nearest"}

\* ------------------------------------------------------------------- sides

\* an array that names Front twice and Back never
SidesTypo == <<"Front", "Front", "Left", "Right", "Top", "Bottom">>

\* the array convert iterates over: [Front, Back, Left, Right, Top, Bottom]
SIDES == <<"Front", "Back", "Left", "Right", "Top", "Bottom">>

\* enum Side
Side == {"Front", "Back", "Left", "Right", "Top", "Bottom"}

\* the tasks of one parallel iterator, one per element of the array
Tasks == 1 .. Len(SIDES)

\* the library's convert: pos of pixel (x, y), times 2 * size.
\* xf / size - 0.5 becomes 2x - size, and 0.5 becomes size.
PosLib(side, x, y, size) ==
    CASE side = "Front"  -> <<size, 2 * x - size, 2 * y - size>>
      [] side = "Back"   -> <<-size, size - 2 * x, 2 * y - size>>
      [] side = "Left"   -> <<-(2 * x - size), size, 2 * y - size>>
      [] side = "Right"  -> <<2 * x - size, -size, 2 * y - size>>
      [] side = "Top"    -> <<2 * x - size, size - 2 * y, -size>>
      [] side = "Bottom" -> <<2 * x - size, 2 * y - size, size>>

\* a pos whose Back arm reads xf / size - 0.5
PosMainTypo(side, x, y, size) ==
    IF side = "Back" THEN <<-size, 2 * x - size, 2 * y - size>> ELSE PosLib(side, x, y, size)

\* the binary's convert: the same arms, one pair of loops per side
PosMain(side, x, y, size) ==
    CASE side = "Front"  -> <<size, 2 * x - size, 2 * y - size>>
      [] side = "Back"   -> <<-size, size - 2 * x, 2 * y - size>>
      [] side = "Left"   -> <<-(2 * x - size), size, 2 * y - size>>
      [] side = "Right"  -> <<2 * x - size, -size, 2 * y - size>>
      [] side = "Top"    -> <<2 * x - size, size - 2 * y, -size>>
      [] side = "Bottom" -> <<2 * x - size, 2 * y - size, size>>

\* the directions a pixel of a face of size <= MaxSize can have, times 2 * size
Directions == (-MaxSize .. MaxSize) \X (-MaxSize .. MaxSize) \X (-MaxSize .. MaxSize)

\* pos.normalize(), from_normalized_vector and to_uv, by direction
UvTable == [d \in Directions |-> to_uv(from_normalized_vector(d))]

\* UvTable as one evaluated table (the equality makes TLC evaluate it once)
UvOf == CHOOSE t \in {UvTable} : t = UvTable

\* let p = interpolation.sample(&img, spr.to_uv()) for the direction pos
Project(interpolation, img, pos) == sample(interpolation, img, UvOf[pos])

\* RgbaImage::new(w, h): every channel zero
NewImage(w, h) == [w |-> w, h |-> h, px |-> [c \in Coords(w, h) |-> <<0, 0, 0, 0>>]]

\* ImageBuffer::put_pixel
put_pixel(image, x, y, p) == [image EXCEPT !.px[<<x, y>>] = p]

\* imageops::rotate90: input (x, y) goes to (h - 1 - y, x)
rotate90(image) ==
    [w |-> image.h, h |-> image.w,
     px |-> [c \in Coords(image.h, image.w) |-> image.px[<<c[2], image.h - 1 - c[1]>>]]]

\* imageops::rotate180: input (x, y) goes to (w - 1 - x, h - 1 - y)
rotate180(image) ==
    [w |-> image.w, h |-> image.h,
     px |-> [c \in Coords(image.w, image.h) |->
               image.px[<<image.w - 1 - c[1], image.h - 1 - c[2]>>]]]

\* imageops::rotate270: input (x, y) goes to (y, w - 1 - x)
rotate270(image) ==
    [w |-> image.h, h |-> image.w,
     px |-> [c \in Coords(image.h, image.w) |-> image.px[<<image.w - 1 - c[2], c[1]>>]]]

\* a rotate whose Front and Back arms are exchanged
RotateSwapped(entry) ==
    [img |-> CASE entry.side = "Top"    -> entry.img
               [] entry.side = "Bottom" -> rotate180(entry.img)
               [] entry.side = "Left"   -> rotate180(entry.img)
               [] entry.side = "Right"  -> entry.img
               [] entry.side = "Front"  -> rotate90(entry.img)
               [] entry.side = "Back"   -> rotate270(entry.img),
     side |-> entry.side]

\* the closure of rotate: one (img, side) entry to its rotated entry
RotateEntry(entry) ==
    [img |-> CASE entry.side = "Top"    -> entry.img
               [] entry.side = "Bottom" -> rotate180(entry.img)
               [] entry.side = "Left"   -> rotate180(entry.img)
               [] entry.side = "Right"  -> entry.img
               [] entry.side = "Front"  -> rotate270(entry.img)
               [] entry.side = "Back"   -> rotate90(entry.img),
     side |-> entry.side]

\* a Display for Side that prints Back as "front"
SideNameTypo(side) ==
    CASE side = "Front"  -> "front"
      [] side = "Back"   -> "front"
      [] side = "Left"   -> "left"
      [] side = "Right"  -> "right"
      [] side = "Top"    -> "top"
      [] side = "Bottom" -> "bottom"

\* Display for Side
SideName(side) ==
    CASE side = "Front"  -> "front"
      [] side = "Back"   -> "back"
      [] side = "Left"   -> "left"
      [] side = "Right"  -> "right"
      [] side = "Top"    -> "top"
      [] side = "Bottom" -> "bottom"

\* enum OutputFormat
OutputFormat == {"Jpg", "Png", "Webp"}

\* Display for OutputFormat
FormatName(format) ==
    CASE format = "Jpg"  -> "jpg"
      [] format = "Png"  -> "png"
      [] format = "Webp" -> "webp"

\* From<OutputFormat> for image::ImageFormat
ImageFormat(format) ==
    CASE format = "Jpg"  -> "Jpeg"
      [] format = "Png"  -> "Png"
      [] format = "Webp" -> "WebP"

\* format!("{}.{}", side, &config.format), joined to the output directory
FileName(side, format) == SideName(side) \o "." \o FormatName(format)

\* EncodableLayout::as_bytes of an RgbaImage: row-major, four bytes per pixel
as_bytes(image) ==
    [k \in 1 .. 4 * image.w * image.h |->
       image.px[<<((k - 1) \div 4) % image.w, ((k - 1) \div 4) \div image.w>>][((k - 1) % 4) + 1]]

\* the arguments main hands to image::save_buffer_with_format
SaveCall(entry, size, format) ==
    [buf |-> as_bytes(entry.img), width |-> size, height |-> size,
     color |-> "Rgba8", format |-> ImageFormat(format)]

\* ------------------------------------------------------------------ inputs

\* the command lines: the options of Config, and whether -t is given
Args ==
    [format : OutputFormat, interpolation : Interpolation, size : 0 .. MaxSize,
     rotate : BOOLEAN, tone_mapping : BOOLEAN]

\* The runs explored: the grid source at every size with Linear and the
\* rotation, at the sizes below MaxSize with Nearest and no rotation, and at
\* size 1 every format, and every source with and without -t.
Inputs ==
    {in \in [argv : Args, img : Images] :
        \/ /\ in.img = ImgGrid
           /\ in.argv.format = "Png"
           /\ ~in.argv.tone_mapping
           /\ \/ in.argv.interpolation = "Linear" /\ in.argv.rotate
              \/ in.argv.interpolation = "Nearest" /\ ~in.argv.rotate /\ in.argv.size < MaxSize
        \/ /\ in.argv.size = 1
           /\ in.img = ImgGrid
           /\ in.argv.interpolation = "Linear"
           /\ ~in.argv.tone_mapping
        \/ /\ in.argv.size = 1
           /\ in.argv.format = "Png"
           /\ ~in.argv.rotate}

\* ------------------------------------------------------------------- state

VARIABLES
    argv,       \* the command line
    img,        \* the decoded content of config.input
    pc,         \* where main is
    exit_code,  \* the process's exit code, -1 while it runs
    dir,        \* whether config.output has been created
    cur,        \* convert: each task's state, loop variables and last pos
    squares,    \* convert: each started task's `square`
    writes,     \* convert: put_pixel calls per task and pixel
    data,       \* main's `data`: the (img, side) entries
    rotated,    \* rotate: the entries mapped so far
    saved,      \* save: each task's outcome
    files       \* the output directory: file name -> what was encoded

vars == <<argv, img, pc, exit_code, dir, cur, squares, writes, data, rotated, saved, files>>

\* struct Config: the four options main reads
config ==
    [format |-> argv.format, interpolation |-> argv.interpolation,
     size |-> argv.size, rotate |-> argv.rotate]

Idle == [st |-> "idle", x |-> 0, y |-> 0, last |-> <<>>]

Init ==
    /\ \E in \in Inputs : argv = in.argv /\ img = in.img
    /\ pc = "parse"
    /\ exit_code = -1
    /\ dir = FALSE
    /\ cur = [i \in Tasks |-> Idle]
    /\ squares = <<>>
    /\ writes = <<>>
    /\ data = <<>>
    /\ rotated = <<>>
    /\ saved = [i \in Tasks |-> "todo"]
    /\ files = <<>>

\* process exit: Ok(()) is 0, an Err from main is 1, clap's usage error is 2,
\* a panic is 101
Exit(code) ==
    /\ pc' = "exited"
    /\ exit_code' = code

\* Config::parse(): Config has no tone-mapping option, so -t is a usage error
Parse ==
    /\ pc = "parse"
    /\ IF argv.tone_mapping
       THEN Exit(2)
       ELSE pc' = "open" /\ UNCHANGED exit_code
    /\ UNCHANGED <<argv, img, dir, cur, squares, writes, data, rotated, saved, files>>

\* image::open(path)? returns the decoded image
OpenOk ==
    /\ pc = "open"
    /\ pc' = "check"
    /\ UNCHANGED <<argv, img, exit_code, dir, cur, squares, writes, data, rotated, saved, files>>

\* image::open(path)? fails: main returns the error
OpenErr ==
    /\ pc = "open"
    /\ Exit(1)
    /\ UNCHANGED <<argv, img, dir, cur, squares, writes, data, rotated, saved, files>>

\* a check that compares the width with the height itself
AspectBadLoose(width, height) == width /= height

\* if width != height * 2
AspectBad(width, height) == width /= height * 2

\* the aspect check: panic!, or go on to create_dir_all
CheckAspect ==
    /\ pc = "check"
    /\ IF AspectBad(img.w, img.h)
       THEN Exit(101)
       ELSE pc' = "mkdir" /\ UNCHANGED exit_code
    /\ UNCHANGED <<argv, img, dir, cur, squares, writes, data, rotated, saved, files>>

\* create_dir_all(&config.output)? succeeds
MkdirOk ==
    /\ pc = "mkdir"
    /\ dir' = TRUE
    /\ pc' = "convert"
    /\ UNCHANGED <<argv, img, exit_code, cur, squares, writes, data, rotated, saved, files>>

\* create_dir_all(&config.output)? fails: main returns the error
MkdirErr ==
    /\ pc = "mkdir"
    /\ Exit(1)
    /\ UNCHANGED <<argv, img, dir, cur, squares, writes, data, rotated, saved, files>>

\* ----------------------------------------------------------------- convert

\* tasks whose closure is running on a worker thread
Running == {i \in Tasks : cur[i].st = "run"}

\* a function without the key k
Without(f, k) == [j \in DOMAIN f \ {k} |-> f[j]]

\* a put_pixel(x, x, p)
PixelAtDiagonal(x, y) == <<x, x>>

\* the coordinates put_pixel is given: put_pixel(x, y, p)
PixelAt(x, y) == <<x, y>>

\* a collect that pushes each result as its task completes
SlotPush(i, filled) == Cardinality(filled) + 1

\* collect() of an indexed parallel iterator: task i's result is element i
Slot(i, filled) == i

\* a worker thread takes task i: the closure allocates its square
StartFace(i) ==
    /\ pc = "convert"
    /\ cur[i].st = "idle"
    /\ Cardinality(Running) < NumThreads
    /\ cur' = [cur EXCEPT ![i].st = "run"]
    /\ squares' = (i :> NewImage(config.size, config.size)) @@ squares
    /\ writes' = (i :> [c \in Coords(config.size, config.size) |-> <<>>]) @@ writes
    /\ UNCHANGED <<argv, img, pc, exit_code, dir, data, rotated, saved, files>>

\* one iteration of the inner loop: pos, normalize, to_uv, sample, put_pixel
PutPixel(i) ==
    /\ pc = "convert"
    /\ cur[i].st = "run"
    /\ cur[i].x < config.size
    /\ LET x == cur[i].x
           y == cur[i].y
           pos == PosMain(SIDES[i], x, y, config.size)
           p == Project(config.interpolation, img, pos)
           at == PixelAt(x, y)
       IN  /\ squares' = [squares EXCEPT ![i] = put_pixel(@, at[1], at[2], p)]
           /\ writes' = [writes EXCEPT ![i][at] = Append(@, i)]
           /\ cur' = [cur EXCEPT ![i].last = [x |-> x, y |-> y, pos |-> pos],
                                 ![i].y = IF y + 1 < config.size THEN y + 1 ELSE 0,
                                 ![i].x = IF y + 1 < config.size THEN x ELSE x + 1]
    /\ UNCHANGED <<argv, img, pc, exit_code, dir, data, rotated, saved, files>>

\* the loops are over: the closure returns (square, *side) into the result
FinishFace(i) ==
    /\ pc = "convert"
    /\ cur[i].st = "run"
    /\ cur[i].x >= config.size
    /\ cur' = [cur EXCEPT ![i].st = "fin"]
    /\ data' = (Slot(i, DOMAIN data) :> [img |-> squares[i], side |-> SIDES[i]]) @@ data
    /\ squares' = Without(squares, i)
    /\ UNCHANGED <<argv, img, pc, exit_code, dir, writes, rotated, saved, files>>

\* every task has returned: convert returns the Vec
ConvertDone ==
    /\ pc = "convert"
    /\ \A i \in Tasks : cur[i].st = "fin"
    /\ pc' = IF config.rotate THEN "rotate" ELSE "save"
    /\ UNCHANGED <<argv, img, exit_code, dir, cur, squares, writes, data, rotated, saved, files>>

\* ------------------------------------------------------------------ rotate

\* one task of rotate's parallel map
RotateTask(i) ==
    /\ pc = "rotate"
    /\ i \in DOMAIN data
    /\ i \notin DOMAIN rotated
    /\ rotated' = (i :> RotateEntry(data[i])) @@ rotated
    /\ UNCHANGED <<argv, img, pc, exit_code, dir, cur, squares, writes, data, saved, files>>

\* rotate returns: data = rotate(data)
RotateDone ==
    /\ pc = "rotate"
    /\ DOMAIN rotated = DOMAIN data
    /\ data' = rotated
    /\ pc' = "save"
    /\ UNCHANGED <<argv, img, exit_code, dir, cur, squares, writes, rotated, saved, files>>

\* -------------------------------------------------------------------- save

\* save_buffer_with_format(...) returns Ok: the file is written
SaveOk(i) ==
    /\ pc = "save"
    /\ i \in DOMAIN data
    /\ saved[i] = "todo"
    /\ saved' = [saved EXCEPT ![i] = "ok"]
    /\ files' = (FileName(data[i].side, config.format)
                    :> SaveCall(data[i], config.size, config.format)) @@ files
    /\ UNCHANGED <<argv, img, pc, exit_code, dir, cur, squares, writes, data, rotated>>

\* save_buffer_with_format(...) returns Err: unwrap() panics in the task
SaveErr(i) ==
    /\ pc = "save"
    /\ i \in DOMAIN data
    /\ saved[i] = "todo"
    /\ saved' = [saved EXCEPT ![i] = "failed"]
    /\ UNCHANGED <<argv, img, pc, exit_code, dir, cur, squares, writes, data, rotated, files>>

\* for_each returns, or resumes a task's panic; main returns Ok(())
SaveDone ==
    /\ pc = "save"
    /\ \A i \in DOMAIN data : saved[i] /= "todo"
    /\ IF \E i \in DOMAIN data : saved[i] = "failed" THEN Exit(101) ELSE Exit(0)
    /\ UNCHANGED <<argv, img, dir, cur, squares, writes, data, rotated, saved, files>>

Next ==
    \/ Parse
    \/ OpenOk
    \/ OpenErr
    \/ CheckAspect
    \/ MkdirOk
    \/ MkdirErr
    \/ \E i \in Tasks : StartFace(i)
    \/ \E i \in Tasks : PutPixel(i)
    \/ \E i \in Tasks : FinishFace(i)
    \/ ConvertDone
    \/ \E i \in Tasks : RotateTask(i)
    \/ RotateDone
    \/ \E i \in Tasks : SaveOk(i)
    \/ \E i \in Tasks : SaveErr(i)
    \/ SaveDone

Spec == Init /\ [][Next]_vars

\* ------------------------------------------------------------ what is claimed

\* convert has returned and `data` still holds its result
ConvertReturned ==
    /\ DOMAIN data = Tasks
    /\ \/ pc = "rotate"
       \/ pc \in {"save", "exited"} /\ ~config.rotate

\* the face task i computes from the source src, as a function of the inputs
ExpectedImage(src, i) ==
    [w |-> config.size, h |-> config.size,
     px |-> [c \in Coords(config.size, config.size) |->
               Project(config.interpolation, src, PosMain(SIDES[i], c[1], c[2], config.size))]]

\* the whole result of convert for the source src
ExpectedData(src) == [i \in Tasks |-> [img |-> ExpectedImage(src, i), side |-> SIDES[i]]]

\* C1: for size >= 1, the result of convert holds exactly six face images, one
\* for each of Front, Back, Left, Right, Top and Bottom, each size x size.
C1_SixSquareFaces ==
    (ConvertReturned /\ config.size >= 1) =>
        /\ Cardinality(DOMAIN data) = 6
        /\ \A s \in {"Front", "Back", "Left", "Right", "Top", "Bottom"} :
              Cardinality({i \in DOMAIN data : data[i].side = s}) = 1
        /\ \A i \in DOMAIN data :
              /\ data[i].img.w = config.size
              /\ data[i].img.h = config.size
              /\ DOMAIN data[i].img.px = Coords(config.size, config.size)

C1_Witness ==
    /\ ConvertReturned
    /\ config.size >= 2
    /\ {data[i].side : i \in DOMAIN data} = Side
    /\ \A i \in DOMAIN data : Cardinality(DOMAIN data[i].img.px) = config.size * config.size

\* C2: within one convert, every pixel of every face is written exactly once:
\* never twice, never by another task, and none is unwritten when the face is
\* returned.
C2_WrittenOnce ==
    /\ \A b \in DOMAIN writes : \A c \in DOMAIN writes[b] :
          /\ Len(writes[b][c]) <= 1
          /\ \A k \in 1 .. Len(writes[b][c]) : writes[b][c][k] = b
    /\ \A i \in Tasks :
          cur[i].st = "fin" =>
             /\ DOMAIN writes[i] = Coords(config.size, config.size)
             /\ \A c \in Coords(config.size, config.size) : writes[i][c] = <<i>>

C2_Witness ==
    /\ pc = "convert"
    /\ config.size >= 2
    /\ cur[3].st = "fin"
    /\ cur[1].st = "run"
    /\ \E c \in DOMAIN writes[1] : writes[1][c] = <<1>>
    /\ \E c \in DOMAIN writes[1] : writes[1][c] = <<>>

\* C3: whatever the interleaving and the completion order of the six tasks, the
\* result of convert is the same function of the source and the options: the
\* same six (image, side) entries in the same places with the same pixels.
C3_Deterministic ==
    /\ \A i \in DOMAIN data : data[i].side = SIDES[i]
    /\ ConvertReturned => data = ExpectedData(img)

\* convert has returned faces that differ from each other, as the function gives them
C3_Witness ==
    /\ pc = "rotate"
    /\ rotated = <<>>
    /\ config.size >= 2
    /\ data = ExpectedData(img)
    /\ data[1].img /= data[2].img

\* tasks complete out of order while two others are part-way through a face
C3_OutOfOrder ==
    /\ pc = "convert"
    /\ config.size >= 2
    /\ DOMAIN data = {6}
    /\ cur[1].st = "run" /\ cur[1].last /= <<>>
    /\ cur[2].st = "run" /\ cur[2].last /= <<>>

\* C4: when the decoded input has width /= 2 * height, the run ends in a fatal
\* error before any output: no directory, no convert, no file, no exit code 0.
C4_AspectFatal ==
    (img.w /= 2 * img.h) =>
        /\ ~dir
        /\ files = <<>>
        /\ squares = <<>> /\ writes = <<>> /\ data = <<>>
        /\ \A i \in Tasks : cur[i].st = "idle"
        /\ pc \in {"parse", "open", "check", "exited"}
        /\ pc = "exited" => exit_code /= 0

C4_Witness ==
    /\ img.w /= 2 * img.h
    /\ pc = "exited"
    /\ exit_code = 101

\* quarter turns clockwise the claim gives each face: Top 0, Bottom 180, Left 180,
\* Right 0, Front 270, Back 90 degrees
ClaimedTurns(side) ==
    CASE side = "Top"    -> 0
      [] side = "Bottom" -> 2
      [] side = "Left"   -> 2
      [] side = "Right"  -> 0
      [] side = "Front"  -> 3
      [] side = "Back"   -> 1

\* where pixel c of an n x n image is after q quarter turns clockwise
RECURSIVE TurnCW(_, _, _)
TurnCW(q, c, n) == IF q = 0 THEN c ELSE TurnCW(q - 1, <<n - 1 - c[2], c[1]>>, n)

\* `after` is `before` turned by the claimed amount of its side, tag and size kept
TurnedAsClaimed(before, after) ==
    /\ after.side = before.side
    /\ after.img.w = before.img.w
    /\ after.img.h = before.img.h
    /\ DOMAIN after.img.px = DOMAIN before.img.px
    /\ \A c \in DOMAIN before.img.px :
          after.img.px[TurnCW(ClaimedTurns(before.side), c, before.img.w)] = before.img.px[c]

\* no save task has run yet
SaveStarts == pc = "save" /\ \A i \in Tasks : saved[i] = "todo"

\* C5: the reorienter runs only with the rotate flag on, after projection and
\* before encoding; it turns each face by the amount of its tag (a permutation
\* of that face's pixels, tag and size kept); with the flag off the faces
\* reach the encoder as convert returned them.
C5_Reoriented ==
    /\ (pc = "rotate" \/ rotated /= <<>>) => config.rotate
    /\ pc = "rotate" => (files = <<>> /\ DOMAIN data = Tasks)
    /\ pc = "rotate" => \A i \in DOMAIN rotated : TurnedAsClaimed(data[i], rotated[i])
    /\ (SaveStarts /\ config.rotate) =>
          \A i \in Tasks : TurnedAsClaimed(ExpectedData(img)[i], data[i])
    /\ (SaveStarts /\ ~config.rotate) => data = ExpectedData(img)

C5_Witness ==
    /\ SaveStarts
    /\ config.rotate
    /\ config.size >= 2
    /\ \A i \in {1, 2, 3, 6} : data[i].img /= ExpectedData(img)[i].img

\* the file names the claim gives, for an extension
ClaimedName(side, ext) ==
    CASE side = "Front"  -> "front." \o ext
      [] side = "Back"   -> "back." \o ext
      [] side = "Left"   -> "left." \o ext
      [] side = "Right"  -> "right." \o ext
      [] side = "Top"    -> "top." \o ext
      [] side = "Bottom" -> "bottom." \o ext

\* the extension the claim gives each format
ClaimedExt ==
    CASE argv.format = "Jpg"  -> "jpg"
      [] argv.format = "Png"  -> "png"
      [] argv.format = "Webp" -> "webp"

\* C6 (as claimed): JPEG faces are encoded from an RGB buffer, 3 bytes per pixel
\* with the RGB colour type; PNG and WebP faces from an RGBA buffer, 4 bytes
\* per pixel with the RGBA colour type.
C6_FormatDecidesBuffer ==
    \A f \in DOMAIN files :
        IF files[f].format = "Jpeg"
        THEN files[f].color = "Rgb8" /\ Len(files[f].buf) = 3 * files[f].width * files[f].height
        ELSE files[f].color = "Rgba8" /\ Len(files[f].buf) = 4 * files[f].width * files[f].height

\* C7: a run that exits with 0 has written exactly the six files front.<ext> ..
\* bottom.<ext>, each holding the image of the entry with that tag; exit code 0
\* is never reached when a save failed.
C7_SixFiles ==
    /\ (pc = "exited" /\ exit_code = 0) =>
          /\ DOMAIN files = {ClaimedName(s, ClaimedExt) :
                               s \in {"Front", "Back", "Left", "Right", "Top", "Bottom"}}
          /\ Cardinality(DOMAIN files) = 6
          /\ \A i \in DOMAIN data :
                /\ files[ClaimedName(data[i].side, ClaimedExt)].buf = as_bytes(data[i].img)
                /\ files[ClaimedName(data[i].side, ClaimedExt)].width = argv.size
                /\ files[ClaimedName(data[i].side, ClaimedExt)].height = argv.size
          /\ DOMAIN data = Tasks
    /\ (\E i \in Tasks : saved[i] = "failed") => exit_code /= 0

C7_Witness ==
    /\ pc = "exited"
    /\ exit_code = 0
    /\ argv.format = "Jpg"
    /\ argv.rotate
    /\ "back.jpg" \in DOMAIN files

\* the source after tone mapping every pixel with exposure 1: an 8-bit RGBA image
ToneMapped(src) ==
    IF src.kind = "Rgb32F"
    THEN [w |-> src.w, h |-> src.h, kind |-> "Rgba8",
          px |-> [c \in DOMAIN src.px |-> reinhard_tone_mapping_rgb(src.px[c], 1)]]
    ELSE src

\* C8 (as claimed): the command line has a tone-mapping option; with it on and
\* a float source every face pixel is sampled from the tone-mapped image, and
\* with an 8-bit source the result of convert is the same as with it off.
C8_ToneMappedFirst ==
    /\ (argv.tone_mapping /\ pc = "exited") => exit_code /= 2
    /\ (argv.tone_mapping /\ ConvertReturned) => data = ExpectedData(ToneMapped(img))

\* the pixels of face i whose UV the sampler finds no pixel for
Misses(i) ==
    {c \in Coords(config.size, config.size) :
        sampled(config.interpolation, img,
                UvOf[PosMain(SIDES[i], c[1], c[2], config.size)]) = None}

ClaimedPos(side, x, y, S) ==
    LET a == 2 * x - S
        b == 2 * y - S
    IN  CASE side = "Front"  -> <<S, a, b>>
          [] side = "Back"   -> <<-S, -a, b>>
          [] side = "Left"   -> <<-a, S, b>>
          [] side = "Right"  -> <<a, -S, b>>
          [] side = "Top"    -> <<a, -b, -S>>
          [] side = "Bottom" -> <<a, b, S>>

\* the component the face fixes, and its sign
FaceAxis(side) ==
    CASE side \in {"Front", "Back"} -> 1
      [] side \in {"Left", "Right"} -> 2
      [] side \in {"Top", "Bottom"} -> 3

FaceSign(side) == IF side \in {"Front", "Left", "Bottom"} THEN 1 ELSE -1

\* the components of pos whose magnitude is 0.5
HalfComponents(pos, S) == {k \in 1 .. 3 : Abs(pos[k]) = S}

\* the direction of the last pixel of task i is the claimed one in both copies
\* of convert, lies in the cube and is not zero
DirectionAsTabled(i) ==
    LET l == cur[i].last
        S == config.size
    IN  /\ l.pos = ClaimedPos(SIDES[i], l.x, l.y, S)
        /\ PosLib(SIDES[i], l.x, l.y, S) = ClaimedPos(SIDES[i], l.x, l.y, S)
        /\ \A k \in 1 .. 3 : -S <= l.pos[k] /\ l.pos[k] <= S
        /\ l.pos /= <<0, 0, 0>>

\* C10 (as claimed): the direction of every pixel is the tabled one in both
\* copies of convert, every component lies in [-0.5, 0.5], exactly one
\* component has magnitude 0.5, and the direction is not zero.
C10_OneHalfComponent ==
    \A i \in Tasks :
        cur[i].last /= <<>> =>
            /\ DirectionAsTabled(i)
            /\ HalfComponents(cur[i].last.pos, config.size) = {FaceAxis(SIDES[i])}

\* C10 (amended): the direction of every pixel is the tabled one in both copies
\* of convert, every component lies in [-0.5, 0.5], the component of the face's
\* axis is 0.5 with the face's sign, the direction is not zero, and another
\* component has magnitude 0.5 exactly when x = 0 or y = 0.
C10_FaceComponentHalf ==
    \A i \in Tasks :
        cur[i].last /= <<>> =>
            /\ DirectionAsTabled(i)
            /\ cur[i].last.pos[FaceAxis(SIDES[i])] = FaceSign(SIDES[i]) * config.size
            /\ (HalfComponents(cur[i].last.pos, config.size) = {FaceAxis(SIDES[i])})
                  <=> (cur[i].last.x /= 0 /\ cur[i].last.y /= 0)

C10_Witness ==
    /\ config.size >= 2
    /\ cur[1].last /= <<>>
    /\ cur[2].last /= <<>>
    /\ cur[1].last.pos = <<2, -2, -2>>
    /\ cur[2].last.pos = <<-2, 0, 0>>

====
